---- MODULE Spec2Model ----
(***************************************************************************)
(* Hydrographic Survey Estimator (Hydrographic_Planning_v0.py).            *)
(*                                                                         *)
(* Encoding of values                                                      *)
(*   - a calendar date (datetime.date) and a midnight timestamp            *)
(*     (pd.to_datetime of a date) are the integer day number;              *)
(*   - a float (kilometres, hours, days) is the integer number of          *)
(*     thousandths of its unit, so 0.5 day is 500 and 60 km is 60000;      *)
(*   - the text of a numeric input is <<n>> when float() parses it to      *)
(*     n thousandths and <<>> when float() raises ValueError;              *)
(*   - an id (uuid4 string or imported id) is a positive integer and       *)
(*     None is 0.                                                          *)
(***************************************************************************)
EXTENDS Integers, Sequences, FiniteSets, TLC

VARIABLES
    projects,            \* st.session_state["projects"]: sequence of Project
    current_project_id,  \* st.session_state["current_project_id"]
    project_select,      \* the value of the "Select Project" selectbox
    editing_vessel,      \* st.session_state["editing_vessel"]
    editing_task,        \* st.session_state["editing_task"]
    errors,              \* the st.error messages of the last script run
    rendered,            \* the last script run reached build_timeline_df
    timeline_df          \* the value build_timeline_df returned in that run

vars == <<projects, current_project_id, project_select, editing_vessel,
          editing_task, errors, rendered, timeline_df>>

None == 0

DEFAULT_SURVEY_SPEED == 5

\* the scale of the encoding of floats: thousandths
Thousand == 10 * 10 * 10

HoursPerDay == 24

(***************************************************************************)
(* Bounds of the model.                                                    *)
(***************************************************************************)
MaxDate == 4       \* task dates given to build_timeline_df: 0..MaxDate
MaxVessels == 2    \* vessels given to build_timeline_df
MaxTasks == 2      \* tasks given to build_timeline_df

(***************************************************************************)
(* Numbers.                                                                *)
(***************************************************************************)

\* round(num/den) to the nearest integer, ties to even (den > 0): Python's
\* round() on a value that is exactly representable.  The inputs of the
\* model are chosen away from ties, where the float's representation error
\* would decide.
RoundHalfEven(num, den) ==
    LET q == num \div den
        r == num % den
    IN  IF 2 * r < den THEN q
        ELSE IF 2 * r > den THEN q + 1
        ELSE IF q % 2 = 0 THEN q ELSE q + 1

\* round(num/den, 2) for num/den in units; the result in thousandths.
Round2(num, den) == 10 * RoundHalfEven(100 * num, den)

\* Vessel._convert_to_days
convert_to_days(val, unit) ==
    IF unit = "hours" THEN Round2(val, HoursPerDay * Thousand) ELSE val

\* date + datetime.timedelta(days=d): date.__add__ uses only timedelta.days,
\* the floor of the day count; the seconds of a fractional day are dropped.
DatePlusDays(date, d) == date + (d \div Thousand)

\* Vessel.__init__
Vessel(name, vessel_km, start_date, transit, transit_unit, weather, weather_unit, maintenance, maintenance_unit, id) ==
    LET transit_days     == convert_to_days(transit, transit_unit)
        weather_days     == convert_to_days(weather, weather_unit)
        maintenance_days == convert_to_days(maintenance, maintenance_unit)
        survey_days      == Round2(vessel_km,
                                   DEFAULT_SURVEY_SPEED * HoursPerDay * Thousand)
        total_days       == Round2(survey_days + transit_days + weather_days
                                   + maintenance_days, Thousand)
    IN  [id               |-> id,
         name             |-> name,
         vessel_km        |-> vessel_km,
         start_date       |-> start_date,
         transit_days     |-> transit_days,
         weather_days     |-> weather_days,
         maintenance_days |-> maintenance_days,
         survey_days      |-> survey_days,
         total_days       |-> total_days,
         end_date         |-> DatePlusDays(start_date, total_days)]

\* Task.__init__
Task(name, task_type, start_date, end_date, vessel_id, pause_survey, id) ==
    [id           |-> id,
     name         |-> name,
     task_type    |-> task_type,
     start_date   |-> start_date,
     end_date     |-> end_date,
     vessel_id    |-> vessel_id,
     pause_survey |-> pause_survey]

\* Project.__init__ followed by the assignment of its two lists
Project(name, total_line_km, infill_pct, id, vessels, tasks) ==
    [id            |-> id,
     name          |-> name,
     total_line_km |-> total_line_km,
     infill_pct    |-> infill_pct,
     vessels       |-> vessels,
     tasks         |-> tasks]

(***************************************************************************)
(* Sequences.                                                              *)
(***************************************************************************)
Range(s) == {s[i] : i \in 1..Len(s)}

\* A stable sort of s, where less[i][j] tells that s[i] sorts before s[j]:
\* i comes before j when less[i][j], and in the order of s when neither
\* sorts before the other (Python's sorted, and pandas' sort_values on
\* several columns, are stable).
StableSort(s, less) ==
    LET n == Len(s)
        Before(j, i) == less[j][i] \/ (~less[i][j] /\ j < i)
        Rank(i) == Cardinality({j \in 1..n : Before(j, i)}) + 1
    IN  [p \in 1..n |-> s[CHOOSE i \in 1..n : Rank(i) = p]]

\* The order of Python's str comparison on the names of the model.
StrKey(name) ==
    CASE name = ""           -> 0
      [] name = "Orca"       -> 1
      [] name = "Unassigned" -> 2
      [] OTHER               -> 3

(***************************************************************************)
(* build_timeline_df.                                                      *)
(***************************************************************************)
UNASSIGNED == "Unassigned"

Row(resource, label, kind, start, finish) ==
    [Resource |-> resource, Task |-> label, Type |-> kind,
     Start |-> start, Finish |-> finish]

SurveyRow(v, start, finish) ==
    Row(v.name, <<"Survey ->", v.name>>, "Survey", start, finish)

PauseRow(v, t) ==
    Row(v.name, <<t.name>>, t.task_type, t.start_date, t.end_date)

UnassignedRow(t) ==
    Row(UNASSIGNED, <<t.name>>, t.task_type, t.start_date, t.end_date)

\* a slip: the pauses_survey flag is not read
IsPauseOfAnyFlag(t, v) == t.vessel_id = v.id

\* the filter of the pause list (line 1032)
IsPauseOf(t, v) == t.vessel_id = v.id /\ t.pause_survey

\* a slip: the pause list is left in the order of the task list
PauseInListOrder(a, b) == FALSE

\* the sort key of the pause list (line 1033)
PauseLess(a, b) == a.start_date < b.start_date

\* sorted([t for t in tasks if ...], key=start_date)
PausesOf(v, tasks) ==
    LET mine == SelectSeq(tasks, LAMBDA t : IsPauseOf(t, v))
    IN  StableSort(mine, [i \in 1..Len(mine) |->
                             [j \in 1..Len(mine) |-> PauseLess(mine[i], mine[j])]])

\* a slip: a Survey segment is put before every pause
SurveyBeforeEveryPause(t_start, current_start) == TRUE

\* the test before the Survey segment that leads up to a pause (line 1042)
SurveyBeforePause(t_start, current_start) == t_start > current_start

\* the cursor after a pause (line 1058)
CursorAfterPause(t, current_start) == t.end_date

\* the test before the final Survey segment (line 1061)
SurveyAfterPauses(current_start, survey_end) == current_start < survey_end

\* the loop over the pauses of one vessel, from pause i on: the rows appended
\* and the value of current_start when it ends
RECURSIVE PauseLoop(_, _, _, _, _)
PauseLoop(v, pauses, i, rows, current_start) ==
    IF i > Len(pauses)
    THEN [rows |-> rows, current_start |-> current_start]
    ELSE LET t == pauses[i]
             survey == IF SurveyBeforePause(t.start_date, current_start)
                       THEN <<SurveyRow(v, current_start, t.start_date)>>
                       ELSE <<>>
         IN  PauseLoop(v, pauses, i + 1,
                       rows \o survey \o <<PauseRow(v, t)>>,
                       CursorAfterPause(t, current_start))

\* a slip: the final Survey segment is stretched by one day for each pause
VesselRowsStretched(v, tasks) ==
    LET pauses == PausesOf(v, tasks)
        loop == PauseLoop(v, pauses, 1, <<>>, v.start_date)
    IN  loop.rows \o
        (IF SurveyAfterPauses(loop.current_start, v.end_date)
         THEN <<SurveyRow(v, loop.current_start, v.end_date + Len(pauses))>>
         ELSE <<>>)

\* the rows one iteration of "for v in vessels" appends
VesselRows(v, tasks) ==
    LET loop == PauseLoop(v, PausesOf(v, tasks), 1, <<>>, v.start_date)
    IN  loop.rows \o
        (IF SurveyAfterPauses(loop.current_start, v.end_date)
         THEN <<SurveyRow(v, loop.current_start, v.end_date)>>
         ELSE <<>>)

RECURSIVE AllVesselRows(_, _, _)
AllVesselRows(vessels, tasks, i) ==
    IF i > Len(vessels) THEN <<>>
    ELSE VesselRows(vessels[i], tasks) \o AllVesselRows(vessels, tasks, i + 1)

\* a slip: a task that does not pause its vessel is listed as unassigned
IsUnassignedOrIdle(t) == t.vessel_id = None \/ ~t.pause_survey

\* the test of the "Unassigned tasks" loop (line 1072)
IsUnassigned(t) == t.vessel_id = None

RECURSIVE UnassignedRows(_, _)
UnassignedRows(tasks, i) ==
    IF i > Len(tasks) THEN <<>>
    ELSE (IF IsUnassigned(tasks[i]) THEN <<UnassignedRow(tasks[i])>> ELSE <<>>)
         \o UnassignedRows(tasks, i + 1)

\* the list "rows" when the two loops have run
TimelineRows(vessels, tasks) ==
    AllVesselRows(vessels, tasks, 1) \o UnassignedRows(tasks, 1)

\* a slip: the rows are sorted by Start alone
RowLessByStart(a, b) == a.Start < b.Start

\* df.sort_values(["Resource", "Start"]) with Resource an ordered categorical
\* whose categories are the sorted resource names
RowLess(a, b) ==
    \/ StrKey(a.Resource) < StrKey(b.Resource)
    \/ (StrKey(a.Resource) = StrKey(b.Resource) /\ a.Start < b.Start)

build_timeline_df(vessels, tasks) ==
    LET rows == TimelineRows(vessels, tasks)
    IN  StableSort(rows, [i \in 1..Len(rows) |->
                             [j \in 1..Len(rows) |-> RowLess(rows[i], rows[j])]])

(***************************************************************************)
(* The session: one script run per widget event.                           *)
(*                                                                         *)
(* Streamlit runs the script from its first line on every event.  A run    *)
(* is modelled on a record s of the session values it reads and writes,    *)
(* threaded through the sections of the script in their order.             *)
(***************************************************************************)
NEW_PROJECT == "+ New Project"

\* str.strip on the texts of the model
Strip(text) == IF text = " " THEN "" ELSE text

Session ==
    [projects           |-> projects,
     current_project_id |-> current_project_id,
     project_select     |-> project_select,
     editing_vessel     |-> editing_vessel,
     editing_task       |-> editing_task,
     errors             |-> {}]

\* the index in projs of the first project with this id, 0 when there is none
ProjectIndex(projs, pid) ==
    IF \E i \in 1..Len(projs) : projs[i].id = pid
    THEN CHOOSE i \in 1..Len(projs) :
             /\ projs[i].id = pid
             /\ \A j \in 1..(i - 1) : projs[j].id # pid
    ELSE 0

\* get_current_project is not None
HasCurrent(s) ==
    /\ s.current_project_id # None
    /\ ProjectIndex(s.projects, s.current_project_id) # 0

\* get_current_project
get_current_project(s) ==
    s.projects[ProjectIndex(s.projects, s.current_project_id)]

CurVessels(s) == get_current_project(s).vessels

CurTasks(s) == get_current_project(s).tasks

\* current_project.vessels = vessels; current_project.tasks = tasks
SetCurrent(s, vessels, tasks) ==
    LET i == ProjectIndex(s.projects, s.current_project_id)
    IN  [s EXCEPT !.projects[i].vessels = vessels, !.projects[i].tasks = tasks]

\* the number of items the lists of the given field hold, over the projects
RECURSIVE SumOver(_, _, _)
SumOver(projs, field, i) ==
    IF i > Len(projs) THEN 0
    ELSE Len(projs[i][field]) + SumOver(projs, field, i + 1)

\* the vessels and the tasks the session holds, over all its projects
TotalVessels(s) == SumOver(s.projects, "vessels", 1)

TotalTasks(s) == SumOver(s.projects, "tasks", 1)

\* the ids the session holds: of projects, of vessels, of tasks.  The code
\* compares an id of one kind with ids of the same kind only.
ProjectIds(s) ==
    {s.current_project_id} \cup {s.projects[i].id : i \in 1..Len(s.projects)}

VesselIds(s) ==
    {s.editing_vessel}
    \cup UNION {{v.id : v \in Range(s.projects[i].vessels)}
                : i \in 1..Len(s.projects)}
    \cup UNION {{t.vessel_id : t \in Range(s.projects[i].tasks)}
                : i \in 1..Len(s.projects)}

TaskIds(s) ==
    {s.editing_task}
    \cup UNION {{t.id : t \in Range(s.projects[i].tasks)}
                : i \in 1..Len(s.projects)}

\* str(uuid4()): an id of which the session holds no copy; which one does
\* not matter, so the least positive number that is none of used.
uuid4(used) == CHOOSE n \in 1..(Cardinality(used) + 1) :
                   /\ n \notin used
                   /\ \A m \in 1..(n - 1) : m \in used

(***************************************************************************)
(* Section 1: create / select project (lines 369-438).                     *)
(***************************************************************************)
ProjectNames(projs) == [i \in 1..Len(projs) |-> projs[i].name]

\* The value the selectbox returns in this run: the value the widget holds
\* while it is still one of the options, else the option at "index"
\* (lines 373-386).
SelectValue(s) ==
    LET names == ProjectNames(s.projects)
    IN  IF s.project_select = NEW_PROJECT \/ s.project_select \in Range(names)
        THEN s.project_select
        ELSE IF HasCurrent(s) THEN get_current_project(s).name
        ELSE NEW_PROJECT

\* "for p in projects: if p.name == chosen: current_project_id = p.id"
\* (lines 421-424): the last project of that name wins
RECURSIVE SelectByName(_, _, _, _)
SelectByName(projs, chosen, i, pid) ==
    IF i > Len(projs) THEN pid
    ELSE SelectByName(projs, chosen, i + 1,
                      IF projs[i].name = chosen THEN projs[i].id ELSE pid)

\* col1 and the else branch of col2: the run of section 1 without a click
Section1(s) ==
    LET sel == SelectValue(s)
    IN  [s EXCEPT !.project_select = sel,
                  !.current_project_id =
                      IF sel = NEW_PROJECT THEN @
                      ELSE SelectByName(s.projects, sel, 1, @)]

(***************************************************************************)
(* Section 5: the timeline (lines 1020-1095), and the end of the run.      *)
(***************************************************************************)
\* The script stopped before build_timeline_df (st.stop at line 438 or 1022).
Stopped(s) ==
    /\ projects' = s.projects
    /\ current_project_id' = s.current_project_id
    /\ project_select' = s.project_select
    /\ editing_vessel' = s.editing_vessel
    /\ editing_task' = s.editing_task
    /\ errors' = s.errors
    /\ rendered' = FALSE
    /\ timeline_df' = <<>>

\* The run reaches section 5 with the session values s.
Section5(s) ==
    IF ~HasCurrent(s) THEN Stopped(s)
    ELSE /\ projects' = s.projects
         /\ current_project_id' = s.current_project_id
         /\ project_select' = s.project_select
         /\ editing_vessel' = s.editing_vessel
         /\ editing_task' = s.editing_task
         /\ errors' = s.errors
         /\ rendered' = TRUE
         /\ timeline_df' = build_timeline_df(CurVessels(s), CurTasks(s))

\* The run ends with the session values the handlers of the run returned.
EndRun(result) == \E s \in {result} : Section5(s)

\* A run in which no button is clicked (a widget changed, or the page was
\* reloaded).
Rerun == \E s \in {Section1(Session)} : EndRun(s)

(***************************************************************************)
(* Section 1 with a click: Create Project, Clear Project.                  *)
(***************************************************************************)
\* float() of every text of a form succeeds
AllParse(texts) == \A i \in 1..Len(texts) : texts[i] # <<>>

\* the "Create Project" button (lines 394-417); shown when the selectbox
\* holds "New Project"
CreateProjectClick(s, new_name, new_line_km_text, new_infill_text) ==
    LET ok == AllParse(<<new_line_km_text, new_infill_text>>)
        e0 == IF ok THEN {}
              ELSE {"Line Km and Infill % must be valid numbers."}
    IN  IF Strip(new_name) = ""
        THEN [s EXCEPT !.errors = e0 \cup {"Project name cannot be empty."}]
        ELSE IF ~ok \/ new_line_km_text[1] < 0
        THEN [s EXCEPT !.errors =
                  e0 \cup {"Total Line Km to Survey must be >= 0."}]
        ELSE IF ~(0 <= new_infill_text[1] /\ new_infill_text[1] <= 100 * Thousand)
        THEN [s EXCEPT !.errors = e0 \cup {"Infill % must be between 0 and 100."}]
        ELSE LET proj == Project(Strip(new_name), new_line_km_text[1],
                                 new_infill_text[1], uuid4(ProjectIds(s)),
                                 <<>>, <<>>)
             IN  [s EXCEPT !.projects = Append(@, proj),
                           !.current_project_id = proj.id]

\* the "Clear Project" button (lines 427-430)
ClearProjectClick(s) ==
    [s EXCEPT !.current_project_id = None,
              !.editing_vessel = None,
              !.editing_task = None]

(***************************************************************************)
(* Section 2: vessels (lines 443-626).                                     *)
(***************************************************************************)
\* a slip: a name that a vessel of the project has is rejected
AddVesselUniqueName(s, vessel_name, vessel_km_text, start_date, transit_text, weather_text, maintenance_text, transit_unit, weather_unit, maintenance_unit) ==
    LET ok == AllParse(<<vessel_km_text, transit_text, weather_text,
                         maintenance_text>>)
        errs ==
            (IF ok THEN {}
             ELSE {"Line Km, Transit, Weather, and Maintenance must all be valid numbers."})
            \cup (IF Strip(vessel_name) = ""
                  THEN {"Vessel name cannot be empty."} ELSE {})
            \cup (IF \E v \in Range(CurVessels(s)) : v.name = Strip(vessel_name)
                  THEN {"Vessel name is already used."} ELSE {})
            \cup (IF ~ok \/ vessel_km_text[1] <= 0
                  THEN {"Line Km must be a positive number."} ELSE {})
            \cup (IF ~ok \/ transit_text[1] < 0
                  THEN {"Transit Duration must be >= 0."} ELSE {})
            \cup (IF ~ok \/ weather_text[1] < 0
                  THEN {"Weather Downtime must be >= 0."} ELSE {})
            \cup (IF ~ok \/ maintenance_text[1] < 0
                  THEN {"Maintenance must be >= 0."} ELSE {})
    IN  IF errs # {} THEN [s EXCEPT !.errors = errs]
        ELSE LET new_v == Vessel(Strip(vessel_name), vessel_km_text[1],
                                 start_date, transit_text[1], transit_unit,
                                 weather_text[1], weather_unit,
                                 maintenance_text[1], maintenance_unit,
                                 uuid4(VesselIds(s)))
             IN  SetCurrent(s, Append(CurVessels(s), new_v), CurTasks(s))

\* the "Add Vessel" submit (lines 467-505)
AddVesselSubmit(s, vessel_name, vessel_km_text, start_date, transit_text, weather_text, maintenance_text, transit_unit, weather_unit, maintenance_unit) ==
    LET ok == AllParse(<<vessel_km_text, transit_text, weather_text,
                         maintenance_text>>)
        errs ==
            (IF ok THEN {}
             ELSE {"Line Km, Transit, Weather, and Maintenance must all be valid numbers."})
            \cup (IF Strip(vessel_name) = ""
                  THEN {"Vessel name cannot be empty."} ELSE {})
            \cup (IF ~ok \/ vessel_km_text[1] <= 0
                  THEN {"Line Km must be a positive number."} ELSE {})
            \cup (IF ~ok \/ transit_text[1] < 0
                  THEN {"Transit Duration must be >= 0."} ELSE {})
            \cup (IF ~ok \/ weather_text[1] < 0
                  THEN {"Weather Downtime must be >= 0."} ELSE {})
            \cup (IF ~ok \/ maintenance_text[1] < 0
                  THEN {"Maintenance must be >= 0."} ELSE {})
    IN  IF errs # {} THEN [s EXCEPT !.errors = errs]
        ELSE LET new_v == Vessel(Strip(vessel_name), vessel_km_text[1],
                                 start_date, transit_text[1], transit_unit,
                                 weather_text[1], weather_unit,
                                 maintenance_text[1], maintenance_unit,
                                 uuid4(VesselIds(s)))
             IN  SetCurrent(s, Append(CurVessels(s), new_v), CurTasks(s))

\* the Edit button of vessel v (lines 529-530)
EditVesselClick(s, v) == [s EXCEPT !.editing_vessel = v.id]

\* a slip: the vessel goes and the tasks assigned to it stay
DeleteVesselKeepsTasks(s, v) ==
    SetCurrent(s,
               SelectSeq(CurVessels(s), LAMBDA x : x.id # v.id),
               CurTasks(s))

\* the Delete button of vessel v (lines 532-536)
DeleteVesselClick(s, v) ==
    SetCurrent(s,
               SelectSeq(CurVessels(s), LAMBDA x : x.id # v.id),
               SelectSeq(CurTasks(s), LAMBDA t : t.vessel_id # v.id))

\* next((x for x in seq if x.id == id), None) is not None
HasId(seq, id) == \E i \in 1..Len(seq) : seq[i].id = id

\* next((x for x in seq if x.id == id), None)
FirstWithId(seq, id) ==
    seq[CHOOSE i \in 1..Len(seq) :
            seq[i].id = id /\ \A j \in 1..(i - 1) : seq[j].id # id]

\* a slip: the form is handled without looking the vessel up, so a vessel
\* deleted since "Edit" comes back
UpdateVesselRecreates(s, new_name, new_km_text, new_start, new_transit_text, new_weather_text, new_maint_text, new_transit_unit, new_weather_unit, new_maint_unit) ==
    IF s.editing_vessel = None THEN s
    ELSE
    LET to_edit == [id |-> s.editing_vessel]
        ok == AllParse(<<new_km_text, new_transit_text, new_weather_text,
                         new_maint_text>>)
        errs ==
            (IF ok THEN {}
             ELSE {"Line Km, Transit, Weather, and Maintenance must be valid numbers."})
            \cup (IF Strip(new_name) = ""
                  THEN {"Vessel name cannot be empty."} ELSE {})
            \cup (IF ~ok \/ new_km_text[1] <= 0
                  THEN {"Line Km must be a positive number."} ELSE {})
            \cup (IF ~ok \/ new_transit_text[1] < 0
                  THEN {"Transit Duration must be >= 0."} ELSE {})
            \cup (IF ~ok \/ new_weather_text[1] < 0
                  THEN {"Weather Downtime must be >= 0."} ELSE {})
            \cup (IF ~ok \/ new_maint_text[1] < 0
                  THEN {"Maintenance must be >= 0."} ELSE {})
    IN  IF errs # {} THEN [s EXCEPT !.errors = errs]
        ELSE LET updated_v == Vessel(Strip(new_name), new_km_text[1], new_start,
                                     new_transit_text[1], new_transit_unit,
                                     new_weather_text[1], new_weather_unit,
                                     new_maint_text[1], new_maint_unit,
                                     to_edit.id)
                 s2 == SetCurrent(s,
                           Append(SelectSeq(CurVessels(s),
                                         LAMBDA x : x.id # to_edit.id),
                                  updated_v),
                           CurTasks(s))
             IN  [s2 EXCEPT !.editing_vessel = None]

\* the "Update Vessel" submit (lines 539-625)
UpdateVesselSubmit(s, new_name, new_km_text, new_start, new_transit_text, new_weather_text, new_maint_text, new_transit_unit, new_weather_unit, new_maint_unit) ==
    IF s.editing_vessel = None THEN s
    ELSE IF ~HasId(CurVessels(s), s.editing_vessel) THEN s
    ELSE
    LET to_edit == FirstWithId(CurVessels(s), s.editing_vessel)
        ok == AllParse(<<new_km_text, new_transit_text, new_weather_text,
                         new_maint_text>>)
        errs ==
            (IF ok THEN {}
             ELSE {"Line Km, Transit, Weather, and Maintenance must be valid numbers."})
            \cup (IF Strip(new_name) = ""
                  THEN {"Vessel name cannot be empty."} ELSE {})
            \cup (IF ~ok \/ new_km_text[1] <= 0
                  THEN {"Line Km must be a positive number."} ELSE {})
            \cup (IF ~ok \/ new_transit_text[1] < 0
                  THEN {"Transit Duration must be >= 0."} ELSE {})
            \cup (IF ~ok \/ new_weather_text[1] < 0
                  THEN {"Weather Downtime must be >= 0."} ELSE {})
            \cup (IF ~ok \/ new_maint_text[1] < 0
                  THEN {"Maintenance must be >= 0."} ELSE {})
    IN  IF errs # {} THEN [s EXCEPT !.errors = errs]
        ELSE LET updated_v == Vessel(Strip(new_name), new_km_text[1], new_start,
                                     new_transit_text[1], new_transit_unit,
                                     new_weather_text[1], new_weather_unit,
                                     new_maint_text[1], new_maint_unit,
                                     to_edit.id)
                 s2 == SetCurrent(s,
                           Append(SelectSeq(CurVessels(s),
                                         LAMBDA x : x.id # to_edit.id),
                                  updated_v),
                           CurTasks(s))
             IN  [s2 EXCEPT !.editing_vessel = None]

(***************************************************************************)
(* Section 3: tasks (lines 631-871).                                       *)
(***************************************************************************)
\* the "Add Task" submit (lines 691-716); sel_vessel is the id of the option
\* chosen under "Assign to Vessel", None for "Unassigned"
AddTaskSubmit(s, task_type, task_name, custom_type, start_date_t, end_date_t, sel_vessel, pause_survey) ==
    LET chosen_type == IF task_type # "Other" THEN task_type
                       ELSE Strip(custom_type)
        errs ==
            (IF Strip(task_name) = ""
             THEN {"Task name cannot be empty."} ELSE {})
            \cup (IF start_date_t > end_date_t
                  THEN {"End date must be on or after start date."} ELSE {})
            \cup (IF task_type = "Other" /\ chosen_type = ""
                  THEN {"You selected Other, but did not specify a custom type."}
                  ELSE {})
    IN  IF errs # {} THEN [s EXCEPT !.errors = errs]
        ELSE LET new_task == Task(Strip(task_name), chosen_type, start_date_t,
                                  end_date_t, sel_vessel, pause_survey,
                                  uuid4(TaskIds(s)))
             IN  SetCurrent(s, CurVessels(s), Append(CurTasks(s), new_task))

\* the Edit button of task t (lines 739-740)
EditTaskClick(s, t) == [s EXCEPT !.editing_task = t.id]

\* the Delete button of task t (lines 742-744)
DeleteTaskClick(s, t) ==
    SetCurrent(s, CurVessels(s), SelectSeq(CurTasks(s), LAMBDA x : x.id # t.id))

\* the "Update Task" submit (lines 747-870)
UpdateTaskSubmit(s, e_type, e_name, e_other, new_start, new_end, new_vessel, new_pause) ==
    IF s.editing_task = None THEN s
    ELSE IF ~HasId(CurTasks(s), s.editing_task) THEN s
    ELSE
    LET to_edit_t == FirstWithId(CurTasks(s), s.editing_task)
        chosen_ttype == IF e_type # "Other" THEN e_type ELSE Strip(e_other)
        errs ==
            (IF Strip(e_name) = ""
             THEN {"Task name cannot be empty."} ELSE {})
            \cup (IF new_start > new_end
                  THEN {"End date must be on or after start date."} ELSE {})
            \cup (IF e_type = "Other" /\ chosen_ttype = ""
                  THEN {"You selected Other, but did not specify a custom type."}
                  ELSE {})
    IN  IF errs # {} THEN [s EXCEPT !.errors = errs]
        ELSE LET updated_t == Task(Strip(e_name), chosen_ttype, new_start,
                                   new_end, new_vessel, new_pause, to_edit_t.id)
                 s2 == SetCurrent(s, CurVessels(s),
                           Append(SelectSeq(CurTasks(s),
                                         LAMBDA x : x.id # to_edit_t.id),
                                  updated_t))
             IN  [s2 EXCEPT !.editing_task = None]

\* the ids offered under "Assign to Vessel" (lines 676-678, 816-818)
VesselOptions(s) == {None} \cup {v.id : v \in Range(CurVessels(s))}

(***************************************************************************)
(* Section 4: import (lines 939-1013).                                     *)
(*                                                                         *)
(* A dict of the file is a record that may lack keys; the value of a key   *)
(* that float() or pd.to_datetime() reads is a text, <<n>> or <<>>.        *)
(***************************************************************************)
HasKeys(d, keys) == keys \subseteq DOMAIN d

\* Vessel.from_dict returns (no KeyError, no ValueError)
VesselDictOk(d) ==
    /\ HasKeys(d, {"name", "vessel_km", "start_date", "transit_days",
                   "weather_days", "maintenance_days", "id"})
    /\ AllParse(<<d.vessel_km, d.start_date, d.transit_days, d.weather_days,
                  d.maintenance_days>>)

\* Vessel.from_dict
Vessel_from_dict(d) ==
    Vessel(d.name, d.vessel_km[1], d.start_date[1],
           d.transit_days[1], "days", d.weather_days[1], "days",
           d.maintenance_days[1], "days", d.id)

\* Task.from_dict returns
TaskDictOk(d) ==
    /\ HasKeys(d, {"name", "task_type", "start_date", "end_date",
                   "vessel_id", "pause_survey", "id"})
    /\ AllParse(<<d.start_date, d.end_date>>)

\* Task.from_dict
Task_from_dict(d) ==
    Task(d.name, d.task_type, d.start_date[1], d.end_date[1],
         d.vessel_id, d.pause_survey, d.id)

\* d.get(key, [])
GetList(d, key) == IF key \in DOMAIN d THEN d[key] ELSE <<>>

\* Project.from_dict returns
ProjectDictOk(d) ==
    /\ HasKeys(d, {"name", "total_line_km", "infill_pct", "id"})
    /\ AllParse(<<d.total_line_km, d.infill_pct>>)
    /\ \A v \in Range(GetList(d, "vessels")) : VesselDictOk(v)
    /\ \A t \in Range(GetList(d, "tasks")) : TaskDictOk(t)

\* Project.from_dict
Project_from_dict(d) ==
    LET vs == GetList(d, "vessels")
        ts == GetList(d, "tasks")
    IN  Project(d.name, d.total_line_km[1], d.infill_pct[1], d.id,
                [i \in 1..Len(vs) |-> Vessel_from_dict(vs[i])],
                [i \in 1..Len(ts) |-> Task_from_dict(ts[i])])

\* lines 946-950 and 1004-1008
ReplaceProjects(s, new_projects) ==
    [s EXCEPT !.projects = new_projects,
              !.current_project_id =
                  IF new_projects # <<>> THEN new_projects[1].id ELSE None]

\* "Import Data" on a .json file (lines 941-951, 1012-1013)
ImportJsonClick(s, data_in) ==
    LET proj_dicts == GetList(data_in, "projects")
    IN  IF \E d \in Range(proj_dicts) : ~ProjectDictOk(d)
        THEN [s EXCEPT !.errors = {"Error importing"}]
        ELSE ReplaceProjects(s, [i \in 1..Len(proj_dicts) |->
                                    Project_from_dict(proj_dicts[i])])

\* the value pandas reads from a cell: an empty cell reads as NaN, which is
\* not None and equals no id
NaN == 0 - 1

ReadCell(x) == IF x = None THEN NaN ELSE x

\* the row of the Vessels sheet as the dict of lines 972-980
VesselRowOk(row) ==
    /\ HasKeys(row, {"project_id", "id", "name", "vessel_km", "start_date",
                     "transit_days", "weather_days", "maintenance_days"})
    /\ VesselDictOk(row)

\* the row of the Tasks sheet as the dict of lines 990-998
TaskRowOk(row) ==
    /\ HasKeys(row, {"project_id", "id", "name", "task_type", "start_date",
                     "end_date", "vessel_id", "pause_survey"})
    /\ TaskDictOk(row)

ProjectRowOk(row) ==
    /\ HasKeys(row, {"name", "total_line_km", "infill_pct", "project_id"})
    /\ AllParse(<<row.total_line_km, row.infill_pct>>)

\* "for p in new_projects: if p.id == pid: ...append...; break"
\* (lines 981-984, 999-1002)
AttachVessel(projs, pid, v) ==
    LET i == ProjectIndex(projs, pid)
    IN  IF i = 0 THEN projs
        ELSE [projs EXCEPT ![i].vessels = Append(@, v)]

AttachTask(projs, pid, t) ==
    LET i == ProjectIndex(projs, pid)
    IN  IF i = 0 THEN projs
        ELSE [projs EXCEPT ![i].tasks = Append(@, t)]

RECURSIVE AttachVessels(_, _, _)
AttachVessels(projs, rows, i) ==
    IF i > Len(rows) THEN projs
    ELSE AttachVessels(AttachVessel(projs, rows[i].project_id,
                                    Vessel_from_dict(rows[i])),
                       rows, i + 1)

RECURSIVE AttachTasks(_, _, _)
AttachTasks(projs, rows, i) ==
    IF i > Len(rows) THEN projs
    ELSE AttachTasks(AttachTask(projs, rows[i].project_id,
                                Task_from_dict(
                                    [rows[i] EXCEPT !.vessel_id = ReadCell(@)])),
                     rows, i + 1)

\* a slip: the projects read from the sheet "Projects" are stored before the
\* sheets "Vessels" and "Tasks" are read, so a bad row there leaves them behind
ImportExcelStoresEarly(s, xls) ==
    IF \/ "Projects" \notin DOMAIN xls
       \/ \E r \in Range(xls.Projects) : ~ProjectRowOk(r)
    THEN [s EXCEPT !.errors = {"Error importing"}]
    ELSE LET proj_df == xls.Projects
             ves_df  == GetList(xls, "Vessels")
             task_df == GetList(xls, "Tasks")
             new0 == [i \in 1..Len(proj_df) |->
                         Project(proj_df[i].name, proj_df[i].total_line_km[1],
                                 proj_df[i].infill_pct[1],
                                 proj_df[i].project_id, <<>>, <<>>)]
         IN  IF \/ \E r \in Range(ves_df) : ~VesselRowOk(r)
                \/ \E r \in Range(task_df) : ~TaskRowOk(r)
             THEN [ReplaceProjects(s, new0) EXCEPT !.errors = {"Error importing"}]
             ELSE ReplaceProjects(s, AttachTasks(AttachVessels(new0, ves_df, 1),
                                                 task_df, 1))

\* "Import Data" on an .xlsx file (lines 953-1009, 1012-1013); xls maps the
\* name of each sheet of the workbook to its rows
ImportExcelClick(s, xls) ==
    LET ves_df  == GetList(xls, "Vessels")
        task_df == GetList(xls, "Tasks")
    IN  IF \/ "Projects" \notin DOMAIN xls
           \/ \E r \in Range(xls.Projects) : ~ProjectRowOk(r)
           \/ \E r \in Range(ves_df) : ~VesselRowOk(r)
           \/ \E r \in Range(task_df) : ~TaskRowOk(r)
        THEN [s EXCEPT !.errors = {"Error importing"}]
        ELSE LET proj_df == xls.Projects
                 new0 == [i \in 1..Len(proj_df) |->
                             Project(proj_df[i].name, proj_df[i].total_line_km[1],
                                     proj_df[i].infill_pct[1],
                                     proj_df[i].project_id, <<>>, <<>>)]
                 new1 == AttachVessels(new0, ves_df, 1)
                 new2 == AttachTasks(new1, task_df, 1)
             IN  ReplaceProjects(s, new2)

(***************************************************************************)
(* The files of the model.                                                 *)
(***************************************************************************)
VesselDict(id, km_text) ==
    [id |-> id, name |-> "Orca", vessel_km |-> km_text, start_date |-> <<1>>,
     transit_days |-> <<0>>, weather_days |-> <<0>>,
     maintenance_days |-> <<0>>]

TaskDict(id, start, end, vessel_id, pause) ==
    [id |-> id, name |-> "Dock", task_type |-> "Maintenance",
     start_date |-> <<start>>, end_date |-> <<end>>,
     vessel_id |-> vessel_id, pause_survey |-> pause]

ProjectDict(id, name, vessels, tasks) ==
    [id |-> id, name |-> name, total_line_km |-> <<0>>, infill_pct |-> <<0>>,
     vessels |-> vessels, tasks |-> tasks]

\* a file written by hand: a vessel of -5 km, a task that ends before it
\* starts, and a task of a vessel the file does not hold
JsonByHand ==
    [projects |-> <<ProjectDict(1, "Gulf",
                        <<VesselDict(1, <<(0 - 5) * Thousand>>)>>,
                        <<TaskDict(1, 3, 2, None, FALSE),
                          TaskDict(2, 2, 3, 9, TRUE)>>)>>]

\* the second project holds a vessel without "vessel_km"
JsonMissingKey ==
    [projects |-> <<ProjectDict(1, "Gulf", <<>>, <<>>),
                    ProjectDict(2, "Bay",
                        <<[id |-> 1, name |-> "Orca", start_date |-> <<1>>,
                           transit_days |-> <<0>>, weather_days |-> <<0>>,
                           maintenance_days |-> <<0>>]>>,
                        <<>>)>>]

\* a file without "projects"
JsonNoProjects == [version |-> 1]

JsonFiles == {JsonByHand, JsonMissingKey, JsonNoProjects}

ProjectRow(id, name) ==
    [project_id |-> id, name |-> name, total_line_km |-> <<0>>,
     infill_pct |-> <<0>>]

VesselRow(pid, id, km_text) ==
    [project_id |-> pid, id |-> id, name |-> "Orca", vessel_km |-> km_text,
     start_date |-> <<1>>, transit_days |-> <<0>>, weather_days |-> <<0>>,
     maintenance_days |-> <<0>>]

TaskRow(pid, id, start, end, vessel_id, pause) ==
    [project_id |-> pid, id |-> id, name |-> "Dock",
     task_type |-> "Maintenance", start_date |-> <<start>>,
     end_date |-> <<end>>, vessel_id |-> vessel_id, pause_survey |-> pause]

\* an export of two projects; the second has a task of no vessel, and one
\* vessel row names a project the workbook does not hold
XlsxExport ==
    [Projects |-> <<ProjectRow(1, "Gulf"), ProjectRow(2, "Bay")>>,
     Vessels  |-> <<VesselRow(1, 1, <<360 * Thousand>>),
                    VesselRow(9, 2, <<60 * Thousand>>)>>,
     Tasks    |-> <<TaskRow(2, 1, 2, 3, None, FALSE)>>]

\* a workbook without the sheet "Projects"
XlsxNoProjects ==
    [Vessels |-> <<VesselRow(1, 1, <<360 * Thousand>>)>>]

\* a workbook whose vessel row has a vessel_km that is no number
XlsxBadRow ==
    [Projects |-> <<ProjectRow(1, "Gulf")>>,
     Vessels  |-> <<VesselRow(1, 1, <<>>)>>]

XlsxFiles == {XlsxExport, XlsxNoProjects, XlsxBadRow}

(***************************************************************************)
(* The actions: one script run each.                                       *)
(***************************************************************************)
MaxProjects == 1         \* projects made with "Create Project"
MaxSessionVessels == 1   \* vessels of the session when one is added
MaxSessionTasks == 2     \* tasks of the session when one is added

\* what the "Create Project" texts hold: an accepted form, a form with a
\* negative length, a form with no name and texts that are no numbers
ProjectForms ==
    {[name |-> "Gulf", line_km |-> <<0>>, infill |-> <<0>>],
     [name |-> "Gulf", line_km |-> <<0 - Thousand>>, infill |-> <<0>>],
     [name |-> " ", line_km |-> <<>>, infill |-> <<101 * Thousand>>]}

\* what the vessel forms hold: two accepted forms (a vessel named
\* "Unassigned" with half a day of survey after a day of transit, and a vessel
\* with three days of survey) and a form with a distance of zero
VesselForms ==
    {[name |-> "Unassigned", km |-> <<60 * Thousand>>,
      transit |-> <<Thousand>>, transit_unit |-> "days"],
     [name |-> "Orca", km |-> <<360 * Thousand>>, transit |-> <<0>>,
      transit_unit |-> "hours"],
     [name |-> "Orca", km |-> <<0>>, transit |-> <<0>>,
      transit_unit |-> "days"]}

\* what the task forms hold, but for the vessel: an accepted form and a
\* form whose end date is before its start date
TaskForms ==
    {[type |-> "Maintenance", name |-> "Dock", other |-> "",
      start |-> 2, end |-> 3, pause |-> TRUE],
     [type |-> "Maintenance", name |-> "Dock", other |-> "",
      start |-> 2, end |-> 1, pause |-> TRUE]}

Init ==
    /\ projects = <<>>
    /\ current_project_id = None
    /\ project_select = NEW_PROJECT
    /\ editing_vessel = None
    /\ editing_task = None
    /\ errors = {}
    /\ rendered = FALSE
    /\ timeline_df = <<>>

CreateProject ==
    \E s \in {Section1(Session)} :
        /\ s.project_select = NEW_PROJECT
        /\ Len(s.projects) < MaxProjects
        /\ \E f \in ProjectForms :
               EndRun(CreateProjectClick(s, f.name, f.line_km, f.infill))

\* "+ New Project" is picked while a project may still be created
SelectProject ==
    \E sel \in {NEW_PROJECT} \cup Range(ProjectNames(projects)) :
        /\ sel # project_select
        /\ sel = NEW_PROJECT => Len(projects) < MaxProjects
        /\ EndRun(Section1([Session EXCEPT !.project_select = sel]))

ClearProject ==
    \E s \in {Section1(Session)} : EndRun(ClearProjectClick(s))

\* "Add Vessel" is submitted with the form holding f
AddVesselWith(f) ==
    \E s \in {Section1(Session)} :
        /\ HasCurrent(s)
        /\ EndRun(AddVesselSubmit(s, f.name, f.km, 1, f.transit, <<0>>,
                                  <<0>>, f.transit_unit, "days", "days"))

\* "Add Vessel" is submitted while the session holds fewer than n vessels
AddVesselWithin(n) ==
    /\ TotalVessels(Session) < n
    /\ \E f \in VesselForms : AddVesselWith(f)

AddVessel == \E n \in {MaxSessionVessels} : AddVesselWithin(n)

EditVessel ==
    \E s \in {Section1(Session)} :
        /\ HasCurrent(s)
        /\ \E v \in Range(CurVessels(s)) : EndRun(EditVesselClick(s, v))

DeleteVessel ==
    \E s \in {Section1(Session)} :
        /\ HasCurrent(s)
        /\ \E v \in Range(CurVessels(s)) : EndRun(DeleteVesselClick(s, v))

\* "Update Vessel" is submitted with the form holding f
UpdateVesselWith(f) ==
    \E s \in {Section1(Session)} :
        /\ HasCurrent(s)
        /\ s.editing_vessel # None
        /\ EndRun(UpdateVesselSubmit(s, f.name, f.km, 1, f.transit, <<0>>,
                                     <<0>>, f.transit_unit, "days", "days"))

UpdateVessel == \E f \in VesselForms : UpdateVesselWith(f)

AddTask ==
    \E s \in {Section1(Session)} :
        /\ HasCurrent(s)
        /\ TotalTasks(s) < MaxSessionTasks
        /\ \E f \in TaskForms, sel_vessel \in VesselOptions(s) :
               EndRun(AddTaskSubmit(s, f.type, f.name, f.other, f.start, f.end,
                                    sel_vessel, f.pause))

EditTask ==
    \E s \in {Section1(Session)} :
        /\ HasCurrent(s)
        /\ \E t \in Range(CurTasks(s)) : EndRun(EditTaskClick(s, t))

DeleteTask ==
    \E s \in {Section1(Session)} :
        /\ HasCurrent(s)
        /\ \E t \in Range(CurTasks(s)) : EndRun(DeleteTaskClick(s, t))

UpdateTask ==
    \E s \in {Section1(Session)} :
        /\ HasCurrent(s)
        /\ s.editing_task # None
        /\ \E f \in TaskForms, new_vessel \in VesselOptions(s) :
               EndRun(UpdateTaskSubmit(s, f.type, f.name, f.other, f.start,
                                       f.end, new_vessel, f.pause))

\* "Import Data" is clicked with file uploaded
ImportJsonWith(file) ==
    \E s \in {Section1(Session)} :
        /\ HasCurrent(s)
        /\ EndRun(ImportJsonClick(s, file))

ImportJson == \E file \in JsonFiles : ImportJsonWith(file)

ImportExcelWith(file) ==
    \E s \in {Section1(Session)} :
        /\ HasCurrent(s)
        /\ EndRun(ImportExcelClick(s, file))

ImportExcel == \E file \in XlsxFiles : ImportExcelWith(file)

NextUI ==
    \/ CreateProject
    \/ SelectProject
    \/ ClearProject
    \/ AddVessel
    \/ EditVessel
    \/ DeleteVessel
    \/ UpdateVessel
    \/ AddTask
    \/ EditTask
    \/ DeleteTask
    \/ UpdateTask
    \/ Rerun

Next ==
    \/ NextUI
    \/ ImportJson
    \/ ImportExcel

Spec == Init /\ [][Next]_vars

(***************************************************************************)
(* The session in which nothing is imported: every project, vessel and     *)
(* task comes from the forms of sections 1 to 3.  The project holds up to  *)
(* MaxVessels vessels, and up to MaxItems vessels and tasks together.      *)
(***************************************************************************)
MaxItems == 3            \* vessels and tasks of the session when one is added

TotalItems == TotalVessels(Session) + TotalTasks(Session)

AddVesselUI ==
    /\ TotalItems < MaxItems
    /\ \E n \in {MaxVessels} : AddVesselWithin(n)

AddTaskUI ==
    /\ TotalItems < MaxItems
    /\ AddTask

NextForms ==
    \/ CreateProject
    \/ SelectProject
    \/ ClearProject
    \/ AddVesselUI
    \/ EditVessel
    \/ DeleteVessel
    \/ UpdateVessel
    \/ AddTaskUI
    \/ EditTask
    \/ DeleteTask
    \/ UpdateTask
    \/ Rerun

SpecUI == Init /\ [][NextForms]_vars

(***************************************************************************)
(* The session in which projects, vessels and tasks are made, selected and *)
(* cleared, and files are imported, but nothing is edited or deleted: the  *)
(* import of section 4 reads neither editing_vessel nor editing_task.      *)
(***************************************************************************)
NextImport ==
    \/ CreateProject
    \/ SelectProject
    \/ ClearProject
    \/ AddVessel
    \/ AddTask
    \/ ImportJson
    \/ ImportExcel
    \/ Rerun

SpecImport == Init /\ [][NextImport]_vars

(***************************************************************************)
(* The timeline builder on its own: a project with any vessels the form    *)
(* accepts and any tasks the form accepts, and one script run over it.     *)
(***************************************************************************)
VesselNames == {"Orca", "Unassigned"}

\* 60 km is half a day of survey, 360 km is three days
BuildKm == {60 * Thousand, 360 * Thousand}

\* the name and the type of the j-th task of the project
TaskKindAt(j) == IF j % 2 = 1 THEN <<"Dock", "Maintenance">>
                 ELSE <<"Storm", "Weather">>

Dates == 0..MaxDate

\* the sequences over S of length n
SeqsOfLen(S, n) == [1..n -> S]

SeqsUpTo(S, n) == UNION {SeqsOfLen(S, k) : k \in 0..n}

\* what the Add Vessel form can hold when it is accepted, but for the id
BuildVesselInputs ==
    [name : VesselNames, vessel_km : BuildKm, start_date : {1}]

\* what the Add Task form can hold when it is accepted, but for the ids
BuildTaskInputs(nv) ==
    {x \in [start_date : Dates, end_date : Dates,
            vessel : 0..nv, pause_survey : BOOLEAN] :
        x.start_date <= x.end_date}

\* vessel i has id i and task j has id nv + j; the project has the next id
BuildProject(vin, tin) ==
    LET nv == Len(vin)
        vessels == [i \in 1..nv |->
                       Vessel(vin[i].name, vin[i].vessel_km, vin[i].start_date,
                              0, "days", 0, "days", 0, "days", i)]
        tasks == [j \in 1..Len(tin) |->
                     Task(TaskKindAt(j)[1], TaskKindAt(j)[2], tin[j].start_date,
                          tin[j].end_date,
                          IF tin[j].vessel = 0 THEN None ELSE tin[j].vessel,
                          tin[j].pause_survey, nv + j)]
    IN  Project("Gulf", 0, 0, nv + Len(tin) + 1, vessels, tasks)

InitBuild ==
    \E vin \in SeqsUpTo(BuildVesselInputs, MaxVessels) :
        \E tin \in SeqsUpTo(BuildTaskInputs(Len(vin)), MaxTasks) :
            LET p == BuildProject(vin, tin)
            IN  /\ projects = <<p>>
                /\ current_project_id = p.id
                /\ project_select = p.name
                /\ editing_vessel = None
                /\ editing_task = None
                /\ errors = {}
                /\ rendered = FALSE
                /\ timeline_df = <<>>

NextBuild == Rerun

SpecBuild == InitBuild /\ [][NextBuild]_vars

(***************************************************************************)
(* The Add Vessel form on a project without vessels: Vessel.__init__ on    *)
(* what the form can hold.                                                 *)
(***************************************************************************)
\* the amounts typed for transit, weather and maintenance, in thousandths
\* of the unit chosen beside them: 0, 0.004, 1, 2 and 5
DurationAmounts == {0, 4, Thousand, 2 * Thousand, 5 * Thousand}

\* the accepted forms: 60 km, 100 km or 120 km (0.5, 0.8333... and 1 day of
\* survey), each amount in days or in hours
DurationForms ==
    [km : {<<60 * Thousand>>, <<100 * Thousand>>, <<120 * Thousand>>},
     transit : {<<x>> : x \in DurationAmounts \ {2 * Thousand}},
     transit_unit : {"days", "hours"},
     weather : {<<0>>, <<2 * Thousand>>},
     weather_unit : {"days", "hours"},
     maintenance : {<<0>>, <<5 * Thousand>>},
     maintenance_unit : {"days", "hours"}]

\* the session after "Create Project"
InitDuration ==
    /\ projects = <<Project("Gulf", 0, 0, 1, <<>>, <<>>)>>
    /\ current_project_id = 1
    /\ project_select = "Gulf"
    /\ editing_vessel = None
    /\ editing_task = None
    /\ errors = {}
    /\ rendered = FALSE
    /\ timeline_df = <<>>

AddVesselDuration ==
    \E s \in {Section1(Session)} :
        /\ HasCurrent(s)
        /\ TotalVessels(s) < MaxSessionVessels
        /\ \E f \in DurationForms :
               EndRun(AddVesselSubmit(s, "Orca", f.km, 1, f.transit, f.weather,
                                      f.maintenance, f.transit_unit,
                                      f.weather_unit, f.maintenance_unit))

NextDuration == AddVesselDuration \/ Rerun

SpecDuration == InitDuration /\ [][NextDuration]_vars

(***************************************************************************)
(* The properties.  They read the session as it stands after a script run   *)
(* that reached build_timeline_df.                                          *)
(***************************************************************************)
Vessels == CurVessels(Session)

Tasks == CurTasks(Session)

Built == rendered /\ HasCurrent(Session)

Max(S) == CHOOSE x \in S : \A y \in S : y <= x

\* the number of places of s that hold x
Count(s, x) == Cardinality({i \in 1..Len(s) : s[i] = x})

\* s and t hold the same elements the same number of times
SameBag(s, t) ==
    /\ Len(s) = Len(t)
    /\ \A x \in Range(s) \cup Range(t) : Count(s, x) = Count(t, x)

\* v is the only vessel of its name, and the name is not "Unassigned": the
\* rows of its resource are its own
OwnResource(v) ==
    /\ v.name # UNASSIGNED
    /\ \A w \in Range(Vessels) : w.name = v.name => w = v

\* the segments of the timeline of one resource, in the timeline's order
SegmentsOf(name) == SelectSeq(timeline_df, LAMBDA r : r.Resource = name)

\* segs, in order, tile [a, b]
Tiles(segs, a, b) ==
    /\ Len(segs) >= 1
    /\ segs[1].Start = a
    /\ \A i \in 1..(Len(segs) - 1) : segs[i + 1].Start = segs[i].Finish
    /\ segs[Len(segs)].Finish = b

\* the tasks bound to v that pause its survey
PauseSet(v) == {t \in Range(Tasks) : t.vessel_id = v.id /\ t.pause_survey}

\* one of a and b ends strictly before the other starts
Apart(a, b) == a.end_date < b.start_date \/ b.end_date < a.start_date

StrictlyInside(t, v) ==
    v.start_date < t.start_date /\ t.end_date < v.end_date

\* Survey, pause, Survey, ..., Survey
Alternating(segs) ==
    \A i \in 1..Len(segs) : (segs[i].Type = "Survey") <=> (i % 2 = 1)

\* C1. For every vessel whose pauses all end on or before its end_date, the
\* segments of the vessel in start order tile [start_date, end_date]: the
\* first starts at start_date, each next one starts where the one before
\* finishes, the last finishes at end_date.  (Stated for a vessel that has
\* pauses; the vessel without any is the case of C2.)
C1_TilingInvariant ==
    Built =>
        \A v \in Range(Vessels) :
            (/\ OwnResource(v)
             /\ PauseSet(v) # {}
             /\ \A t \in PauseSet(v) : t.end_date <= v.end_date)
            => Tiles(SegmentsOf(v.name), v.start_date, v.end_date)

\* C2. A valid vessel with no pause task bound to it has exactly one segment
\* in the timeline: Survey, from its start_date to its end_date.
C2_NoPauseOneSurvey ==
    Built =>
        \A v \in Range(Vessels) :
            (OwnResource(v) /\ PauseSet(v) = {})
            => SegmentsOf(v.name) = <<SurveyRow(v, v.start_date, v.end_date)>>

\* C3. A vessel with N pauses strictly inside its span, no two of which
\* overlap (each ends strictly before the next one starts), has exactly 2N+1
\* segments, alternating Survey, pause, ..., Survey, that tile the span; a
\* vessel with no pause (N = 0) has its one Survey segment.
C3_PausesInside ==
    Built =>
        \A v \in Range(Vessels) :
            (/\ OwnResource(v)
             /\ \A t \in PauseSet(v) : StrictlyInside(t, v)
             /\ \A a, b \in PauseSet(v) : a # b => Apart(a, b))
            => /\ Len(SegmentsOf(v.name)) = 2 * Cardinality(PauseSet(v)) + 1
               /\ Alternating(SegmentsOf(v.name))
               /\ Tiles(SegmentsOf(v.name), v.start_date, v.end_date)

\* the furthest point the rows before row k cover, from the vessel's start
CursorBefore(v, rows, k) ==
    Max({v.start_date} \cup {rows[j].Finish : j \in 1..(k - 1)})

\* C4. Every pause segment of a vessel starts at max(cursor, pause.start_date)
\* where cursor is the furthest point the segments emitted before it cover
\* (the vessel's start_date at first); so no segment of the vessel starts
\* before the vessel's start_date.
C4_StartClamping ==
    Built =>
        \A v \in Range(Vessels) :
            LET rows == VesselRows(v, Tasks)
            IN  /\ \A k \in 1..Len(rows) :
                       rows[k].Type # "Survey"
                       => \E t \in PauseSet(v) :
                              /\ rows[k].Task = <<t.name>>
                              /\ rows[k].Start =
                                     Max({CursorBefore(v, rows, k), t.start_date})
                /\ \A k \in 1..Len(rows) : rows[k].Start >= v.start_date

\* the task lists that hold the tasks of s in another order
Reorderings(s) ==
    {[i \in 1..Len(s) |-> s[f[i]]] : f \in Permutations(1..Len(s))}

\* C5. The segments of each vessel do not depend on the order of the task
\* collection: every reordering of the tasks gives every vessel the same
\* sequence of segments.
C5_OrderIndependence ==
    Built =>
        \A other \in Reorderings(Tasks) :
            \A v \in Range(Vessels) :
                VesselRows(v, other) = VesselRows(v, Tasks)

\* C6. For every valid vessel, end_date - start_date in days equals
\* total_days, fractions of a day included.
C6_DurationRoundTrip ==
    Built =>
        \A v \in Range(Vessels) :
            (v.end_date - v.start_date) * Thousand = v.total_days

\* the tasks with no vessel_id
UnassignedTasks == SelectSeq(Tasks, LAMBDA t : t.vessel_id = None)

\* the segment the claim gives to an unassigned task
UnassignedSegment(t) ==
    [Resource |-> "Unassigned", Task |-> <<t.name>>, Type |-> t.task_type,
     Start |-> t.start_date, Finish |-> t.end_date]

ExpectedUnassigned ==
    [i \in 1..Len(UnassignedTasks) |-> UnassignedSegment(UnassignedTasks[i])]

\* C10 as stated: the segments of resource "Unassigned" are, one for one, the
\* tasks with no vessel_id, each as (Unassigned, name, category, start, end).
C10_AsStated ==
    Built => SameBag(SegmentsOf("Unassigned"), ExpectedUnassigned)

\* every vessel and every task the session holds, over all its projects
StoredVessels ==
    UNION {Range(projects[i].vessels) : i \in 1..Len(projects)}

StoredTasks ==
    UNION {Range(projects[i].tasks) : i \in 1..Len(projects)}

\* the tasks whose vessel_id is set and is the id of no vessel of the project
DanglingTasks ==
    SelectSeq(Tasks, LAMBDA t : /\ t.vessel_id \notin {None, NaN}
                                /\ ~HasId(Vessels, t.vessel_id))

\* C7. A task whose vessel_id is set but is the id of no vessel passed to
\* build_timeline_df is treated as unassigned: it has exactly one segment in
\* the timeline, of resource "Unassigned".
C7_DanglingIsUnassigned ==
    Built =>
        \A t \in Range(DanglingTasks) :
            Count(timeline_df, UnassignedSegment(t)) = Count(DanglingTasks, t)

\* C8. In every reachable state, whichever of Add Vessel, Update Vessel,
\* JSON import and Excel import made them, every stored vessel has a
\* distance above zero.
C8_PositiveDistance == \A v \in StoredVessels : v.vessel_km > 0

\* C9. In every state reachable by Add Task, Update Task, Delete Task and
\* the imports, every stored task has start_date <= end_date.
C9_TaskDatesOrdered == \A t \in StoredTasks : t.start_date <= t.end_date

\* C11. For every vessel, the pause list used for it holds exactly the tasks
\* whose vessel_id is the vessel's id and whose pauses_survey is true, each
\* once, in ascending order of start_date; the list may be empty.
C11_PauseList ==
    Built =>
        \A v \in Range(Vessels) :
            LET pauses == PausesOf(v, Tasks)
            IN  /\ \A t \in Range(Tasks) \cup Range(pauses) :
                       Count(pauses, t) =
                           IF t.vessel_id = v.id /\ t.pause_survey
                           THEN Count(Tasks, t) ELSE 0
                /\ \A i \in 1..(Len(pauses) - 1) :
                       pauses[i].start_date <= pauses[i + 1].start_date

\* a vessel with two pauses that the task list holds latest first, beside a
\* vessel with no pause
C11_Witness ==
    /\ Built
    /\ Len(Tasks) = 2
    /\ Tasks[1].start_date > Tasks[2].start_date
    /\ \E v, w \in Range(Vessels) :
           /\ PausesOf(v, Tasks) = <<Tasks[2], Tasks[1]>>
           /\ PausesOf(w, Tasks) = <<>>

\* the place, among the rows emitted for a vessel, of the row of its i-th
\* pause: the i-th row that is not a Survey row
PauseRowAt(rows, i) ==
    CHOOSE k \in 1..Len(rows) :
        /\ rows[k].Type # "Survey"
        /\ Cardinality({j \in 1..k : rows[j].Type # "Survey"}) = i

\* C12. A pause whose end_date is after the vessel's end_date is not clamped
\* on its finish side: its segment finishes at the pause's end_date, and no
\* Survey segment is emitted after it for that vessel.
C12_PauseBeyondEnd ==
    Built =>
        \A v \in Range(Vessels) :
            LET rows == VesselRows(v, Tasks)
                pauses == PausesOf(v, Tasks)
            IN  \A i \in 1..Len(pauses) :
                    pauses[i].end_date > v.end_date
                    => LET k == PauseRowAt(rows, i)
                       IN  /\ rows[k].Finish = pauses[i].end_date
                           /\ \A j \in (k + 1)..Len(rows) :
                                  rows[j].Type # "Survey"

\* C13. The start values of the segments of one vessel, in the order in
\* which they are emitted, never decrease (the tasks have start_date <=
\* end_date).
C13_MonotoneStarts ==
    Built =>
        \A v \in Range(Vessels) :
            LET rows == VesselRows(v, Tasks)
            IN  \A k \in 1..(Len(rows) - 1) : rows[k].Start <= rows[k + 1].Start

\* a vessel whose two pauses the task list holds latest first, and its five
\* segments
C13_Witness ==
    /\ Built
    /\ Len(Tasks) = 2
    /\ Tasks[1].start_date > Tasks[2].start_date
    /\ \E v \in Range(Vessels) :
           /\ Cardinality(PauseSet(v)) = 2
           /\ Len(VesselRows(v, Tasks)) = 5

\* C14. Every segment of the timeline, Survey, pause or Unassigned, has
\* start <= finish, whatever the pauses overlap and wherever they lie
\* against the span of the vessel (the tasks have start_date <= end_date).
C14_StartBeforeFinish ==
    Built => \A k \in 1..Len(timeline_df) :
                 timeline_df[k].Start <= timeline_df[k].Finish

\* a vessel with two pauses that overlap, one of which starts before the
\* vessel does, and the segments of the vessel
C14_Witness ==
    /\ Built
    /\ \E v \in Range(Vessels) :
           /\ OwnResource(v)
           /\ \E a, b \in PauseSet(v) :
                  /\ a.start_date < v.start_date
                  /\ a.start_date < b.start_date
                  /\ b.start_date < a.end_date
           /\ Len(SegmentsOf(v.name)) >= 2

\* C15. The timeline is grouped by resource, the segments of one resource
\* next to each other, and the segments of one resource are in
\* non-decreasing order of start.
C15_GroupedAndOrdered ==
    Built =>
        \A i, j \in 1..Len(timeline_df) :
            (i < j /\ timeline_df[i].Resource = timeline_df[j].Resource)
            => /\ timeline_df[i].Start <= timeline_df[j].Start
               /\ \A k \in i..j :
                      timeline_df[k].Resource = timeline_df[i].Resource

\* a timeline of two resources whose rows were not emitted in its order
C15_Witness ==
    /\ Built
    /\ Cardinality({timeline_df[k].Resource : k \in 1..Len(timeline_df)}) = 2
    /\ Len(timeline_df) >= 4
    /\ timeline_df # TimelineRows(Vessels, Tasks)

\* C16. A vessel's survey_days is its distance / (speed * 24) rounded to 2
\* decimal places, and the quotient that enters total_days is the unrounded
\* one: total_days less the three allowances, times speed * 24, is the
\* distance.
C16_SurveyDays ==
    \A v \in StoredVessels :
        /\ v.survey_days =
               Round2(v.vessel_km, DEFAULT_SURVEY_SPEED * HoursPerDay * Thousand)
        /\ (v.total_days - v.transit_days - v.weather_days - v.maintenance_days)
               * DEFAULT_SURVEY_SPEED * HoursPerDay = v.vessel_km

\* C17. For every stored vessel, total_days is exactly survey_days +
\* transit_days + weather_days + maintenance_days.
C17_TotalIsSum ==
    \A v \in StoredVessels :
        v.total_days =
            v.survey_days + v.transit_days + v.weather_days + v.maintenance_days

\* C18. An allowance typed in hours is stored as exactly hours / 24 days and
\* one typed in days is stored unchanged: every stored allowance is a typed
\* amount, or 24 times it is.
C18_HoursOver24 ==
    \A v \in StoredVessels :
        \A d \in {v.transit_days, v.weather_days, v.maintenance_days} :
            d \in DurationAmounts \/ d * HoursPerDay \in DurationAmounts

\* current_start when the loop over the pauses of v has taken the first i
CursorAfter(v, pauses, i) ==
    PauseLoop(v, SubSeq(pauses, 1, i), 1, <<>>, v.start_date).current_start

\* C19. In the sweep over the pauses of a vessel the cursor never moves
\* back: after each pause it is max(cursor before, pause.end_date).
C19_CursorMonotone ==
    Built =>
        \A v \in Range(Vessels) :
            LET pauses == PausesOf(v, Tasks)
            IN  \A i \in 1..Len(pauses) :
                    CursorAfter(v, pauses, i) =
                        Max({CursorAfter(v, pauses, i - 1), pauses[i].end_date})

\* C20. A pause of a vessel whose start_date and end_date are both before
\* the vessel's start_date gives exactly one segment, of length zero, at
\* the vessel's start_date, and leaves the cursor where it was.
C20_PauseBeforeStart ==
    Built =>
        \A v \in Range(Vessels) :
            LET rows == VesselRows(v, Tasks)
                pauses == PausesOf(v, Tasks)
            IN  \A i \in 1..Len(pauses) :
                    pauses[i].end_date < v.start_date
                    => LET k == PauseRowAt(rows, i)
                       IN  /\ rows[k].Start = v.start_date
                           /\ rows[k].Finish = v.start_date
                           /\ CursorAfter(v, pauses, i) =
                                  CursorAfter(v, pauses, i - 1)

AtSection2 == Section1(Session)

\* the project of the run has lost vessel v and the tasks assigned to v, and
\* nothing else of it has changed
DeletedWithItsTasks(v) ==
    /\ Vessels' = SelectSeq(CurVessels(AtSection2), LAMBDA x : x # v)
    /\ Tasks' = SelectSeq(CurTasks(AtSection2), LAMBDA t : t.vessel_id # v.id)
    /\ ~HasId(Vessels', v.id)
    /\ \A t \in Range(CurTasks(AtSection2)) :
           t.vessel_id = v.id => t \notin Range(Tasks')

\* C22. In a session without imports, started with no project, every task's
\* vessel_id is None or the id of a vessel of the same project; and a
\* "Delete" of a vessel removes that vessel and exactly the tasks whose
\* vessel_id is its id, the other vessels and tasks staying as they were.
C22_ReferentialIntegrity ==
    /\ [](\A i \in 1..Len(projects) :
             \A t \in Range(projects[i].tasks) :
                 \/ t.vessel_id = None
                 \/ HasId(projects[i].vessels, t.vessel_id))
    /\ [][DeleteVessel =>
              \E v \in Range(CurVessels(AtSection2)) : DeletedWithItsTasks(v)]_vars

\* the first vessel was deleted (the vessel left has the second id), and of
\* the tasks left one is assigned to the vessel left and one to none
C22_Witness ==
    /\ Built
    /\ Len(Vessels) = 1
    /\ Vessels[1].id = 2
    /\ \E t \in Range(Tasks) : t.vessel_id = 2
    /\ \E t \in Range(Tasks) : t.vessel_id = None

\* the list s without its i-th place
Without(s, i) == SubSeq(s, 1, i - 1) \o SubSeq(s, i + 1, Len(s))

\* task t is assigned to a vessel of the project and does not pause it
IdleOnVessel(t) ==
    /\ t.vessel_id # None
    /\ HasId(Vessels, t.vessel_id)
    /\ ~t.pause_survey

\* C23. A task assigned to an existing vessel with pause_survey false has no
\* segment and changes no segment of the vessel: the timeline is the one
\* build_timeline_df returns for the same vessels and the tasks without it.
C23_IdleTaskIsAbsent ==
    Built =>
        \A i \in 1..Len(Tasks) :
            IdleOnVessel(Tasks[i]) =>
                /\ timeline_df = build_timeline_df(Vessels, Without(Tasks, i))
                /\ \A r \in Range(timeline_df) :
                       r.Type = "Survey" \/ r.Task # <<Tasks[i].name>>

\* a vessel with a task that does not pause it, lying inside a task that
\* does: the vessel's segments are survey, pause, survey
C23_Witness ==
    /\ Built
    /\ \E i, j \in 1..Len(Tasks) :
           /\ IdleOnVessel(Tasks[i])
           /\ Tasks[j].vessel_id = Tasks[i].vessel_id
           /\ Tasks[j].pause_survey
           /\ Tasks[j].start_date <= Tasks[i].start_date
           /\ Tasks[i].end_date <= Tasks[j].end_date
           /\ \E v \in Range(Vessels) :
                  /\ v.id = Tasks[i].vessel_id
                  /\ Len(SegmentsOf(v.name)) = 3

\* the vessel form f passes the tests of the submit handlers
VesselFormOk(f) ==
    /\ Strip(f.name) # ""
    /\ AllParse(<<f.km, f.transit>>)
    /\ f.km[1] > 0
    /\ f.transit[1] >= 0

\* the vessel the handlers build from form f under id
VesselOfForm(f, id) ==
    Vessel(Strip(f.name), f.km[1], 1, f.transit[1], f.transit_unit,
           0, "days", 0, "days", id)

\* the step replaces the vessel of id e by the vessel of form f and leaves
\* the other vessels and the tasks of the project as they were
Replaced(f, e) ==
    LET before == CurVessels(AtSection2)
    IN  /\ Len(Vessels') = Len(before)
        /\ Cardinality({i \in 1..Len(Vessels') : Vessels'[i].id = e}) = 1
        /\ VesselOfForm(f, e) \in Range(Vessels')
        /\ \A x \in Range(before) : x.id # e => x \in Range(Vessels')
        /\ Tasks' = CurTasks(AtSection2)
        /\ editing_vessel' = None

\* the step leaves the vessels, the tasks and editing_vessel as they were
NotReplaced ==
    /\ Vessels' = CurVessels(AtSection2)
    /\ Tasks' = CurTasks(AtSection2)
    /\ editing_vessel' = AtSection2.editing_vessel

\* C24. "Update Vessel" takes effect only if the id in editing_vessel is the
\* id of a vessel of the current project.  An accepted form then replaces
\* that vessel by one of the same id with survey_days, total_days and
\* end_date computed anew, keeps the number of vessels, every other vessel
\* and every task, and sets editing_vessel to None.  A rejected form, or an
\* id whose vessel has been deleted, changes no vessel, and a deleted vessel
\* does not come back.
C24_UpdateVessel ==
    [][\A f \in VesselForms :
           UpdateVesselWith(f) =>
               IF VesselFormOk(f)
                  /\ HasId(CurVessels(AtSection2), AtSection2.editing_vessel)
               THEN Replaced(f, AtSection2.editing_vessel)
               ELSE NotReplaced]_vars

\* vessel 1 was updated beside vessel 2 (it is now the last of the list)
\* while a task was assigned to it
C24_Witness ==
    /\ Built
    /\ Len(Vessels) = 2
    /\ Vessels[1].id = 2
    /\ Vessels[2].id = 1
    /\ \E t \in Range(Tasks) : t.vessel_id = 1
    /\ editing_vessel = None

\* every record of a .json file can be read: no key is missing and every
\* number and date parses
JsonReads(data_in) ==
    \A d \in Range(GetList(data_in, "projects")) : ProjectDictOk(d)

\* the workbook has the sheet "Projects" and every row of its sheets can be
\* read
XlsxReads(xls) ==
    /\ "Projects" \in DOMAIN xls
    /\ \A r \in Range(xls.Projects) : ProjectRowOk(r)
    /\ \A r \in Range(GetList(xls, "Vessels")) : VesselRowOk(r)
    /\ \A r \in Range(GetList(xls, "Tasks")) : TaskRowOk(r)

\* the ids and names of the project records of a file, in the file's order
JsonHeads(data_in) ==
    LET recs == GetList(data_in, "projects")
    IN  [i \in 1..Len(recs) |-> [id |-> recs[i].id, name |-> recs[i].name]]

XlsxHeads(xls) ==
    [i \in 1..Len(xls.Projects) |->
        [id |-> xls.Projects[i].project_id, name |-> xls.Projects[i].name]]

\* the step leaves the project list and current_project_id as the import
\* found them
ImportLeftAll ==
    /\ projects' = AtSection2.projects
    /\ current_project_id' = AtSection2.current_project_id

\* the step makes the project list the projects of heads, and the first of
\* them, if any, the current project
ImportReplacedAll(heads) ==
    /\ Len(projects') = Len(heads)
    /\ \A i \in 1..Len(heads) :
           /\ projects'[i].id = heads[i].id
           /\ projects'[i].name = heads[i].name
    /\ current_project_id' = IF Len(heads) > 0 THEN heads[1].id ELSE None

\* what every run of an import shows, whatever the file: the edit forms stay
\* as they were and no error is reported but the import's own
ImportFrame ==
    /\ editing_vessel' = editing_vessel
    /\ editing_task' = editing_task
    /\ errors' \subseteq {"Error importing"}

\* the step is a run in which file was imported
JsonImported(file) == ImportFrame /\ ImportJsonWith(file)

XlsxImported(file) == ImportFrame /\ ImportExcelWith(file)

\* C25. Import is all or nothing.  If a record of the file cannot be read (a
\* missing key, a value that does not parse, no sheet "Projects"), the
\* project list and current_project_id are as before the import.  If the
\* file is read, the project list is the imported projects and nothing else,
\* and current_project_id is the id of the first of them, or None if the
\* file holds no project.
C25_ImportAllOrNothing ==
    [][/\ \A file \in JsonFiles :
              JsonImported(file) =>
                  IF JsonReads(file) THEN ImportReplacedAll(JsonHeads(file))
                  ELSE ImportLeftAll
       /\ \A file \in XlsxFiles :
              XlsxImported(file) =>
                  IF XlsxReads(file) THEN ImportReplacedAll(XlsxHeads(file))
                  ELSE ImportLeftAll]_vars

\* the workbook of two projects was imported, and then an import failed: the
\* two projects are still the project list and the first is still current
C25_Witness ==
    /\ errors = {"Error importing"}
    /\ Len(projects) = 2
    /\ projects[1].id = 1 /\ projects[2].id = 2
    /\ projects[2].name = "Bay"
    /\ Len(projects[2].tasks) = 1
    /\ current_project_id = 1

\* the vessels of the current project whose name is name
VesselsNamed(name) == SelectSeq(Vessels, LAMBDA v : v.name = name)

\* the rows build_timeline_df makes for the vessels named name and, under
\* the name "Unassigned", for the tasks of no vessel
RowsUnder(name) ==
    AllVesselRows(VesselsNamed(name), Tasks, 1)
    \o (IF name = UNASSIGNED THEN UnassignedRows(Tasks, 1) ELSE <<>>)

\* segments a and b share more than a point of time
Overlap(a, b) == a.Start < b.Finish /\ b.Start < a.Finish

\* C26. Segments are keyed by the vessel's name and not by its id, and no
\* vessel form rejects a name that a vessel of the project already has.  So
\* an accepted "Add Vessel" always adds a vessel of the name given and an
\* accepted "Update Vessel" always gives the vessel the name given; every
\* segment carries nothing of the vessel but its name; and the group of a
\* name holds the segments of every vessel of that name, together with the
\* segments of the unassigned tasks if the name is "Unassigned".
C26_KeyedByName ==
    /\ [](Built =>
             /\ \A r \in Range(timeline_df) :
                    DOMAIN r = {"Resource", "Task", "Type", "Start", "Finish"}
             /\ \A name \in {v.name : v \in Range(Vessels)} \cup {UNASSIGNED} :
                    SameBag(SegmentsOf(name), RowsUnder(name)))
    /\ [][\A f \in VesselForms :
              /\ (AddVesselWith(f) /\ VesselFormOk(f)) =>
                     /\ Len(Vessels') = Len(CurVessels(AtSection2)) + 1
                     /\ Vessels'[Len(Vessels')].name = Strip(f.name)
                     /\ errors' = {}
              /\ (/\ UpdateVesselWith(f)
                  /\ VesselFormOk(f)
                  /\ HasId(CurVessels(AtSection2), AtSection2.editing_vessel)) =>
                     /\ Vessels'[Len(Vessels')].id = AtSection2.editing_vessel
                     /\ Vessels'[Len(Vessels')].name = Strip(f.name)
                     /\ errors' = {}]_vars

\* two vessels of one name and of different ids, neither with a pause, whose
\* segments overlap inside the one group of that name; the name is
\* "Unassigned" and the group also holds the segment of a task of no vessel
C26_Witness ==
    /\ Built
    /\ \E i, j \in 1..Len(Vessels) :
           /\ Vessels[i].id # Vessels[j].id
           /\ Vessels[i].name = Vessels[j].name
           /\ PauseSet(Vessels[i]) = {} /\ PauseSet(Vessels[j]) = {}
           /\ \E a, b \in 1..Len(SegmentsOf(Vessels[i].name)) :
                  /\ a # b
                  /\ SegmentsOf(Vessels[i].name)[a].Type = "Survey"
                  /\ SegmentsOf(Vessels[i].name)[b].Type = "Survey"
                  /\ Overlap(SegmentsOf(Vessels[i].name)[a],
                             SegmentsOf(Vessels[i].name)[b])
           /\ Vessels[i].name = UNASSIGNED
    /\ \E t \in Range(Tasks) :
           /\ IsUnassigned(t)
           /\ UnassignedRow(t) \in Range(SegmentsOf(UNASSIGNED))

====
